---- MODULE Spec2Model ----
(***************************************************************************)
(* Model of src/Inspection.py: the inspection workflow controller          *)
(* (InspectionDisplay), its remote command handler (FlaskServer) and its   *)
(* shutdown path (cleanup, signal_handler).                                *)
(*                                                                         *)
(* Indices (prereq_idx, panel_idx, task_idx) are 0-based as in the code;   *)
(* TLA+ sequences are 1-based, so list[i] of the code is seq[i + 1].       *)
(***************************************************************************)
EXTENDS Integers, Sequences, FiniteSets, TLC

\* ------------------------------------------------------------------------
\* Configuration (lines 18-76)
\* ------------------------------------------------------------------------

STATE_START == 0
STATE_PREREQUISITES == 1
STATE_TOOLS == 2
STATE_INSPECTION == 3
STATE_SUMMARY == 4

\* The cooldown between accepted inputs; the unit of time of the model.
INPUT_COOLDOWN_TIME == 1

\* The checklist: one status per step, description and reference text left
\* out. Three prerequisites; panels of 2, 4 and 3 tasks.
INSPECTION_WORKFLOW ==
    [prerequisites |-> <<"PENDING", "PENDING", "PENDING">>,
     panels |-> << <<"PENDING", "PENDING">>,
                   <<"PENDING", "PENDING", "PENDING", "PENDING">>,
                   <<"PENDING", "PENDING", "PENDING">> >>]

\* ------------------------------------------------------------------------
\* Bounds of the model
\* ------------------------------------------------------------------------

\* At most this many steps are marked PASS or FAIL in one behaviour.
MaxMarks == 1

\* The checklists of SpecContent: up to MaxPrereqs prerequisites and up to
\* MaxPanels panels of up to MaxPanelTasks tasks each.
MaxPrereqs == 3
MaxPanels == 3
MaxPanelTasks == 4

\* SpecConc: remote requests served, button presses, termination signals
\* and the last value of the clock.
NumRequests == 1
MaxPresses == 2
MaxSignals == 1
MaxTime == 1

\* ------------------------------------------------------------------------
\* State
\* ------------------------------------------------------------------------

VARIABLES
    workflow,             \* INSPECTION_WORKFLOW, with the status of each step
    state,                \* self.state
    prereq_idx,           \* self.prereq_idx
    panel_idx,            \* self.panel_idx
    task_idx,             \* self.task_idx
    needs_redraw,         \* self.needs_redraw
    is_recording_active,  \* self.is_recording_active
    out,                  \* self.out, the VideoWriter: "open", "closed", "failed"
    release_calls,        \* history: number of self.out.release() calls
    summary_entries,      \* history: entries into SUMMARY (0, 1, 2 = several)
    recent,               \* history: the last two commands applied
    before_last,          \* history: the Cursor before the last command
    origin,               \* history: the Cursor before the last two commands
    advances,             \* history: number of advance(+1) commands applied
    last,                 \* history: the last command handled whole, its outcome
    cleanup_log,          \* history: <<step, done>> of each step the current
                          \* cleanup run has attempted
    shown,                \* history: what the last render put on the screen
    th,                   \* each thread's position and locals
    now,                  \* time.time(), in units of the cooldown
    last_input_time,      \* self.last_input_time
    gpio_handle,          \* self.gpio_handle: "open" or "none"
    cap,                  \* self.cap, the capture: "open" or "released"
    effects,              \* history: how often each cleanup effect happened
    presses,              \* history: button presses seen by _check_buttons
    signals,              \* history: termination signals delivered
    accepted,             \* history: <<thread, time>> of each command let in
    rejected              \* history: <<thread, time>> of each cooldown refusal

display == <<workflow, state, prereq_idx, panel_idx, task_idx, needs_redraw,
             is_recording_active, out, release_calls>>

\* The history of the commands.
journal ==
    <<summary_entries, recent, before_last, origin, advances, last, shown>>

history == <<journal, cleanup_log>>

program == <<th, now, last_input_time, gpio_handle, cap, effects, presses,
             signals, accepted, rejected>>

vars == <<display, history, program>>

\* The fields of the InspectionDisplay object that _advance_state and
\* _mark_status read and write, as one record.
Self ==
    [workflow |-> workflow, state |-> state, prereq_idx |-> prereq_idx,
     panel_idx |-> panel_idx, task_idx |-> task_idx,
     needs_redraw |-> needs_redraw,
     is_recording_active |-> is_recording_active, out |-> out,
     release_calls |-> release_calls]

SetSelf(s) ==
    /\ workflow' = s.workflow
    /\ state' = s.state
    /\ prereq_idx' = s.prereq_idx
    /\ panel_idx' = s.panel_idx
    /\ task_idx' = s.task_idx
    /\ needs_redraw' = s.needs_redraw
    /\ is_recording_active' = s.is_recording_active
    /\ out' = s.out
    /\ release_calls' = s.release_calls

\* InspectionDisplay.__init__ (lines 159-238) for a checklist `content`:
\* the writer either opened (recording active) or failed to open.
NewDisplay(content, writer_opened) ==
    [workflow |-> content, state |-> STATE_START, prereq_idx |-> 0,
     panel_idx |-> 0, task_idx |-> 0, needs_redraw |-> TRUE,
     is_recording_active |-> writer_opened,
     out |-> IF writer_opened THEN "open" ELSE "failed",
     release_calls |-> 0]

\* ------------------------------------------------------------------------
\* The workflow model: _get_current_step, _mark_status, _advance_state
\* ------------------------------------------------------------------------

NumPrereqs(s) == Len(s.workflow.prerequisites)
NumPanels(s) == Len(s.workflow.panels)
NumTasks(s, p) == Len(s.workflow.panels[p + 1])

\* cv2.VideoWriter.release(): closes an open writer, no effect otherwise.
Release(s) ==
    [s EXCEPT !.out = IF @ = "open" THEN "closed" ELSE @,
              !.release_calls = @ + 1]

\* _get_current_step: where the current step lives, or "none".
CurrentStepKind(s) ==
    IF s.state = STATE_PREREQUISITES THEN "prereq"
    ELSE IF s.state = STATE_INSPECTION THEN "task"
    ELSE "none"

CurrentStatus(s) ==
    IF CurrentStepKind(s) = "prereq"
    THEN s.workflow.prerequisites[s.prereq_idx + 1]
    ELSE s.workflow.panels[s.panel_idx + 1][s.task_idx + 1]

SetCurrentStatus(s, status) ==
    IF CurrentStepKind(s) = "prereq"
    THEN [s EXCEPT !.workflow.prerequisites[s.prereq_idx + 1] = status]
    ELSE [s EXCEPT !.workflow.panels[s.panel_idx + 1][s.task_idx + 1] = status]

MarkStatus(s, status) ==
    IF CurrentStepKind(s) # "none" /\ CurrentStatus(s) = "PENDING"
    THEN [SetCurrentStatus(s, status) EXCEPT !.needs_redraw = TRUE]
    ELSE s

\* A bug the PREREQUISITES branch could have: the upper bound off by one.
AdvancePrerequisitesOffByOne(s, direction) ==
    LET num_prereqs == NumPrereqs(s)
        new_idx == s.prereq_idx + direction
    IN  IF 0 <= new_idx /\ new_idx <= num_prereqs
        THEN [s EXCEPT !.prereq_idx = new_idx, !.needs_redraw = TRUE]
        ELSE IF new_idx >= num_prereqs /\ direction = 1
        THEN [s EXCEPT !.state = STATE_TOOLS, !.needs_redraw = TRUE]
        ELSE IF new_idx < 0 /\ direction = -1
        THEN [s EXCEPT !.state = STATE_START, !.needs_redraw = TRUE]
        ELSE s

\* A bug the PREREQUISITES branch could have: the step moved to starts over
\* as PENDING.
AdvancePrerequisitesResets(s, direction) ==
    LET num_prereqs == NumPrereqs(s)
        new_idx == s.prereq_idx + direction
    IN  IF 0 <= new_idx /\ new_idx < num_prereqs
        THEN [s EXCEPT !.prereq_idx = new_idx, !.needs_redraw = TRUE,
                       !.workflow.prerequisites[new_idx + 1] = "PENDING"]
        ELSE IF new_idx >= num_prereqs /\ direction = 1
        THEN [s EXCEPT !.state = STATE_TOOLS, !.needs_redraw = TRUE]
        ELSE IF new_idx < 0 /\ direction = -1
        THEN [s EXCEPT !.state = STATE_START, !.needs_redraw = TRUE]
        ELSE s

\* _advance_state, the PREREQUISITES branch (lines 270-283).
AdvancePrerequisites(s, direction) ==
    LET num_prereqs == NumPrereqs(s)
        new_idx == s.prereq_idx + direction
    IN  IF 0 <= new_idx /\ new_idx < num_prereqs
        THEN [s EXCEPT !.prereq_idx = new_idx, !.needs_redraw = TRUE]
        ELSE IF new_idx >= num_prereqs /\ direction = 1
        THEN [s EXCEPT !.state = STATE_TOOLS, !.needs_redraw = TRUE]
        ELSE IF new_idx < 0 /\ direction = -1
        THEN [s EXCEPT !.state = STATE_START, !.needs_redraw = TRUE]
        ELSE s

\* Entering SUMMARY (lines 303-310): the recording stops if it is active.
EnterSummary(s) ==
    LET t == [s EXCEPT !.state = STATE_SUMMARY, !.needs_redraw = TRUE]
    IN  IF t.is_recording_active
        THEN [Release(t) EXCEPT !.is_recording_active = FALSE]
        ELSE t

\* A bug the INSPECTION branch could have: moving back inside a panel
\* lands on its first task.
AdvanceInspectionBackToFirst(s, direction) ==
    LET num_panels == NumPanels(s)
        num_tasks == NumTasks(s, s.panel_idx)
        new_task_idx == s.task_idx + direction
    IN  IF 0 <= new_task_idx /\ new_task_idx < num_tasks
        THEN [s EXCEPT !.task_idx = IF direction = 1 THEN new_task_idx ELSE 0,
                       !.needs_redraw = TRUE]
        ELSE IF new_task_idx >= num_tasks /\ direction = 1
        THEN IF s.panel_idx < num_panels - 1
             THEN [s EXCEPT !.panel_idx = @ + 1, !.task_idx = 0,
                            !.needs_redraw = TRUE]
             ELSE EnterSummary(s)
        ELSE IF new_task_idx < 0 /\ direction = -1
        THEN IF s.panel_idx > 0
             THEN [s EXCEPT !.panel_idx = @ - 1,
                            !.task_idx = NumTasks(s, s.panel_idx - 1) - 1,
                            !.needs_redraw = TRUE]
             ELSE [s EXCEPT !.state = STATE_TOOLS, !.needs_redraw = TRUE]
        ELSE s

\* _advance_state, the INSPECTION branch (lines 286-323).
AdvanceInspection(s, direction) ==
    LET num_panels == NumPanels(s)
        num_tasks == NumTasks(s, s.panel_idx)
        new_task_idx == s.task_idx + direction
    IN  IF 0 <= new_task_idx /\ new_task_idx < num_tasks
        THEN [s EXCEPT !.task_idx = new_task_idx, !.needs_redraw = TRUE]
        ELSE IF new_task_idx >= num_tasks /\ direction = 1
        THEN IF s.panel_idx < num_panels - 1
             THEN [s EXCEPT !.panel_idx = @ + 1, !.task_idx = 0,
                            !.needs_redraw = TRUE]
             ELSE EnterSummary(s)
        ELSE IF new_task_idx < 0 /\ direction = -1
        THEN IF s.panel_idx > 0
             THEN [s EXCEPT !.panel_idx = @ - 1,
                            !.task_idx = NumTasks(s, s.panel_idx - 1) - 1,
                            !.needs_redraw = TRUE]
             ELSE [s EXCEPT !.state = STATE_TOOLS, !.needs_redraw = TRUE]
        ELSE s

\* _advance_state (lines 254-331).
AdvanceState(s, direction) ==
    IF s.state = STATE_START /\ direction = 1
    THEN [s EXCEPT !.state = STATE_PREREQUISITES, !.needs_redraw = TRUE]
    ELSE IF s.state = STATE_TOOLS
    THEN IF direction = 1
         THEN [s EXCEPT !.state = STATE_INSPECTION, !.needs_redraw = TRUE]
         ELSE [s EXCEPT !.state = STATE_PREREQUISITES,
                        !.prereq_idx = NumPrereqs(s) - 1,
                        !.needs_redraw = TRUE]
    ELSE IF s.state = STATE_PREREQUISITES
    THEN AdvancePrerequisites(s, direction)
    ELSE IF s.state = STATE_INSPECTION
    THEN AdvanceInspection(s, direction)
    ELSE IF s.state = STATE_SUMMARY /\ direction = -1
    THEN [s EXCEPT !.state = STATE_INSPECTION,
                   !.panel_idx = NumPanels(s) - 1,
                   !.task_idx = NumTasks(s, NumPanels(s) - 1) - 1,
                   !.needs_redraw = TRUE]
    ELSE s

\* ------------------------------------------------------------------------
\* Commands applied one at a time
\* ------------------------------------------------------------------------

\* The steps of the checklist: <<0, i>> is prerequisite i, <<p, t>> is task
\* t of panel p (all 1-based here).
Steps(s) ==
    {<<0, i>> : i \in 1..NumPrereqs(s)}
    \cup UNION {{<<p, t>> : t \in 1..Len(s.workflow.panels[p])} :
                p \in 1..NumPanels(s)}

StatusOf(w, step) ==
    IF step[1] = 0 THEN w.prerequisites[step[2]]
    ELSE w.panels[step[1]][step[2]]

MarkedCount(s) ==
    Cardinality({step \in Steps(s) : StatusOf(s.workflow, step) # "PENDING"})

IsSelf(s) ==
    /\ workflow = s.workflow
    /\ state = s.state
    /\ prereq_idx = s.prereq_idx
    /\ panel_idx = s.panel_idx
    /\ task_idx = s.task_idx
    /\ needs_redraw = s.needs_redraw
    /\ is_recording_active = s.is_recording_active
    /\ out = s.out
    /\ release_calls = s.release_calls

\* Thread 0 is the main thread; threads 1..NumRequests each serve one
\* remote request.
MainThread == 0
RequestThreads == 1..NumRequests
Threads == {MainThread} \cup RequestThreads

RemoteCommands == {"next", "prev", "pass", "fail", "other"}
\* BUTTON_PINS (lines 24-29), by the command each button issues.
Buttons == {"next", "prev", "fail", "pass"}

Direction(command) == IF command = "next" THEN 1 ELSE -1
MarkArgument(command) == IF command = "pass" THEN "PASS" ELSE "FAIL"

\* A thread at rest: its position and the locals of the handler it runs.
\* `guarded`: an exception raised by the thread is caught (the try of
\* __main__ around run(), lines 596-602; Flask around a view function).
IdleThread(pc) ==
    [pc |-> pc, cmd |-> "none", t0 |-> 0, v |-> 0, ref |-> <<>>,
     guarded |-> TRUE]

\* The program outside the display object right after start-up: the main
\* loop at the top of its first iteration, no request in flight, the
\* cooldown already over (line 173), the GPIO chip opened.
ProgramAtRest ==
    /\ th = [t \in Threads |->
                IF t = MainThread THEN IdleThread("frame")
                ELSE IdleThread("idle")]
    /\ now = 0
    /\ last_input_time = now - INPUT_COOLDOWN_TIME
    /\ gpio_handle = "open"
    /\ cap = "open"
    /\ effects = [capture_release |-> 0, writer_release |-> 0,
                  archive |-> 0, message |-> 0, clear |-> 0,
                  module_exit |-> 0, gpio_close |-> 0]
    /\ presses = 0
    /\ signals = 0
    /\ accepted = {}
    /\ rejected = {}

Cursor(s) == <<s.state, s.prereq_idx, s.panel_idx, s.task_idx>>

\* Nothing rendered yet.
NothingShown == <<>>

\* What a render of s puts on the screen: the screen of the current step
\* and the statuses.
Visible(s) == <<Cursor(s), s.workflow>>

\* No command handled yet.
NoCommand ==
    [source |-> "none", command |-> "none", outcome |-> "none", time |-> 0]

\* What the history variables record of a command that takes the display
\* from s to t.
Record(command, s, t) ==
    /\ recent' = IF recent = <<>> THEN <<command>>
                 ELSE <<recent[Len(recent)], command>>
    /\ origin' = before_last
    /\ before_last' = Cursor(s)
    /\ summary_entries' =
          IF t.state = STATE_SUMMARY /\ s.state # STATE_SUMMARY
          THEN (IF summary_entries = 0 THEN 1 ELSE 2)
          ELSE summary_entries
    /\ UNCHANGED <<last, cleanup_log, shown>>

Init ==
    /\ \E writer_opened \in BOOLEAN :
          IsSelf(NewDisplay(INSPECTION_WORKFLOW, writer_opened))
    /\ summary_entries = 0
    /\ recent = <<>>
    /\ before_last = Cursor(Self)
    /\ origin = Cursor(Self)
    /\ advances = 0
    /\ last = NoCommand
    /\ cleanup_log = <<>>
    /\ shown = NothingShown
    /\ ProgramAtRest

\* A NEXT or PREV command handled to completion.
Advance(command, direction) ==
    /\ SetSelf(AdvanceState(Self, direction))
    /\ Record(command, Self, AdvanceState(Self, direction))
    /\ UNCHANGED <<advances, program>>

AdvanceNext == Advance("next", 1)
AdvancePrev == Advance("prev", -1)

\* A PASS or FAIL command handled to completion.
Mark(command, status) ==
    /\ MarkedCount(MarkStatus(Self, status)) <= MaxMarks
    /\ SetSelf(MarkStatus(Self, status))
    /\ Record(command, Self, MarkStatus(Self, status))
    /\ UNCHANGED <<advances, program>>

MarkPass == Mark("pass", "PASS")
MarkFail == Mark("fail", "FAIL")

\* The redraw of the main loop (lines 500-513): clears the dirty flag and
\* draws the screen of the current state.
Redraw ==
    /\ needs_redraw
    /\ needs_redraw' = FALSE
    /\ UNCHANGED <<workflow, state, prereq_idx, panel_idx, task_idx,
                   is_recording_active, out, release_calls, history,
                   program>>

Next == AdvanceNext \/ AdvancePrev \/ MarkPass \/ MarkFail \/ Redraw

Spec == Init /\ [][Next]_vars

\* ------------------------------------------------------------------------
\* Claims about commands applied one at a time (checked under Spec)
\* ------------------------------------------------------------------------

\* C2: after every finite sequence of advance and mark commands applied one
\* at a time from START, the Cursor is in bounds: prereq_idx is an index of
\* the prerequisites, panel_idx an index of the panels and task_idx an index
\* of the tasks of panel panel_idx.
CursorInBounds(s) ==
    /\ 0 <= s.prereq_idx /\ s.prereq_idx < NumPrereqs(s)
    /\ 0 <= s.panel_idx /\ s.panel_idx < NumPanels(s)
    /\ 0 <= s.task_idx /\ s.task_idx < NumTasks(s, s.panel_idx)

C2_CursorInBounds == CursorInBounds(Self)

\* The last task of the last panel, reached by going back from SUMMARY.
C2_Witness ==
    /\ recent # <<>> /\ recent[Len(recent)] = "prev"
    /\ before_last[1] = STATE_SUMMARY
    /\ Cursor(Self) = <<STATE_INSPECTION, NumPrereqs(Self) - 1,
                        NumPanels(Self) - 1,
                        NumTasks(Self, NumPanels(Self) - 1) - 1>>

\* C9: advance(+1) and advance(-1) leave the status of every step as it
\* was, so a step marked PASS is still PASS when the operator goes back and
\* forth to it.
C9_NavigationKeepsStatus ==
    [][(recent' # <<>> /\ recent'[Len(recent')] \in {"next", "prev"})
          => workflow' = workflow]_vars

\* A step that is PASS, left with advance(-1) and come back to with
\* advance(+1).
C9_Witness ==
    /\ recent = <<"prev", "next">>
    /\ Cursor(Self) = origin
    /\ before_last # origin
    /\ CurrentStepKind(Self) # "none"
    /\ CurrentStatus(Self) = "PASS"

\* A position from which advance(+1) stays in the same stage and panel.
NonBoundary(c) ==
    \/ c[1] = STATE_PREREQUISITES /\ c[2] + 1 < NumPrereqs(Self)
    \/ c[1] = STATE_INSPECTION /\ c[4] + 1 < NumTasks(Self, c[3])

\* C10: from a position where advance(+1) crosses no stage or panel
\* boundary, advance(+1) followed at once by advance(-1) returns the Cursor
\* to its original value.
C10_AdvanceThenBack ==
    (recent = <<"next", "prev">> /\ NonBoundary(origin))
        => Cursor(Self) = origin

\* The round trip made inside a panel of the INSPECTION stage.
C10_Witness ==
    /\ recent = <<"next", "prev">>
    /\ NonBoundary(origin)
    /\ origin[1] = STATE_INSPECTION
    /\ before_last # origin
    /\ Cursor(Self) = origin

\* ------------------------------------------------------------------------
\* Forward advances over any checklist (SpecContent)
\* ------------------------------------------------------------------------

PendingList(n) == [i \in 1..n |-> "PENDING"]

\* Every checklist within the bounds, all steps PENDING; no empty list.
Contents ==
    {[prerequisites |-> PendingList(n), panels |-> ps] :
        n \in 1..MaxPrereqs,
        ps \in UNION {[1..k -> {PendingList(m) : m \in 1..MaxPanelTasks}] :
                      k \in 1..MaxPanels}}

\* The checklist of the scenario: 3 prerequisites, panels of 2 and 3 tasks.
ScenarioContent ==
    [prerequisites |-> PendingList(3),
     panels |-> <<PendingList(2), PendingList(3)>>]

RECURSIVE TotalTasks(_)
TotalTasks(panels) ==
    IF panels = <<>> THEN 0
    ELSE Len(Head(panels)) + TotalTasks(Tail(panels))

\* 1 + N + 1 + T
AdvancesNeeded(w) == 1 + Len(w.prerequisites) + 1 + TotalTasks(w.panels)

InitContent ==
    /\ \E content \in Contents, writer_opened \in BOOLEAN :
          IsSelf(NewDisplay(content, writer_opened))
    /\ summary_entries = 0
    /\ recent = <<>>
    /\ before_last = Cursor(Self)
    /\ origin = Cursor(Self)
    /\ advances = 0
    /\ last = NoCommand
    /\ cleanup_log = <<>>
    /\ shown = NothingShown
    /\ ProgramAtRest

\* One more NEXT command, counted; the run goes one command past SUMMARY.
ForwardAdvance ==
    /\ advances <= AdvancesNeeded(workflow)
    /\ SetSelf(AdvanceState(Self, 1))
    /\ Record("next", Self, AdvanceState(Self, 1))
    /\ advances' = advances + 1
    /\ UNCHANGED program

SpecContent == InitContent /\ [][ForwardAdvance]_vars

\* C8: starting at START, a run of advance(+1) commands reaches SUMMARY
\* after exactly 1 + N + 1 + T commands and not before, and from then on
\* the recording is closed; with 3 prerequisites and panels of 2 and 3 tasks
\* the stages change after 1, 3, 1 and 5 commands.
C8_AdvancesToSummary ==
    /\ state = STATE_SUMMARY <=> advances >= AdvancesNeeded(workflow)
    /\ advances >= AdvancesNeeded(workflow)
          => ~is_recording_active /\ out # "open"
    /\ workflow = ScenarioContent
          => /\ advances = 0 => state = STATE_START
             /\ advances \in 1..3
                   => Cursor(Self) = <<STATE_PREREQUISITES, advances - 1, 0, 0>>
             /\ advances = 1 + 3 => state = STATE_TOOLS
             /\ advances = 1 + 3 + 1
                   => Cursor(Self) = <<STATE_INSPECTION, 2, 0, 0>>
             /\ advances = 1 + 3 + 1 + 4
                   => Cursor(Self) = <<STATE_INSPECTION, 2, 1, 2>>
             /\ advances = 1 + 3 + 1 + 5 => state = STATE_SUMMARY

\* The scenario's run: SUMMARY after 10 commands, the writer released.
C8_Witness ==
    /\ workflow = ScenarioContent
    /\ advances = 1 + 3 + 1 + 5
    /\ state = STATE_SUMMARY
    /\ summary_entries = 1
    /\ out = "closed"
    /\ ~is_recording_active
\* ------------------------------------------------------------------------
\* The concurrent program: the main thread (run, _check_buttons, cleanup,
\* signal_handler) and the Flask request threads (handle_command). No lock
\* is taken anywhere in the source, so a thread switch can fall between any
\* two statements: each assignment to a shared field is a step of its own,
\* and the tests a handler makes before its first assignment are one step.
\* ------------------------------------------------------------------------

\* list[i] of Python: a negative i counts from the end; out of range raises
\* IndexError.
PyInRange(list, i) == -Len(list) <= i /\ i < Len(list)
PyIndex(list, i) == IF i >= 0 THEN list[i + 1] ELSE list[Len(list) + i + 1]

Goto(t, label) == th' = [th EXCEPT ![t].pc = label]
GotoWith(t, label, v) == th' = [th EXCEPT ![t].pc = label, ![t].v = v]

\* Where a handler continues when _advance_state or _mark_status returns,
\* and where an exception raised in it is caught: handle_command stamps
\* last_input_time (line 150) and Flask answers an exception with an error
\* response; _check_buttons stamps (line 474) and an exception leaves run()
\* for the handler of __main__ (lines 599-602).
Return(t) == IF t = MainThread THEN "btn_stamp" ELSE "stamp"
Raise(t) == IF t = MainThread THEN "crash" ELSE "failed"

Alive == th[MainThread].pc # "exited"

Write(field, value) == SetSelf([Self EXCEPT ![field] = value])

world == <<now, last_input_time, gpio_handle, cap, effects, presses,
           signals, accepted, rejected>>

\* ---- _advance_state (lines 254-331) ----

\* The tests of _advance_state up to its first assignment, evaluated on
\* one reading of the Cursor: the if/elif chain on self.state (lines 255,
\* 260, 270, 286, 326) and, inside the branch taken, the range test of the
\* new index (lines 271-280, 287-297, 312) and the test of panel_idx
\* (lines 298, 314). The value an assignment will store is kept in v.
AdvDecide(t) ==
    /\ Alive /\ th[t].pc = "adv"
    /\ LET direction == Direction(th[t].cmd)
           new_idx == prereq_idx + direction
           new_task_idx == task_idx + direction
       IN  IF state = STATE_START /\ direction = 1
           THEN Goto(t, "adv_start")
           ELSE IF state = STATE_TOOLS
           THEN IF direction = 1
                THEN Goto(t, "adv_tools_fwd") ELSE Goto(t, "adv_tools_back")
           ELSE IF state = STATE_PREREQUISITES
           THEN IF 0 <= new_idx /\ new_idx < NumPrereqs(Self)
                THEN GotoWith(t, "adv_prereq_idx", new_idx)
                ELSE IF new_idx >= NumPrereqs(Self) /\ direction = 1
                THEN Goto(t, "adv_prereq_tools")
                ELSE IF new_idx < 0 /\ direction = -1
                THEN Goto(t, "adv_prereq_start")
                ELSE Goto(t, Return(t))
           ELSE IF state = STATE_INSPECTION
           THEN IF ~PyInRange(workflow.panels, panel_idx)
                THEN Goto(t, Raise(t))
                ELSE LET num_tasks == Len(PyIndex(workflow.panels, panel_idx))
                     IN  IF 0 <= new_task_idx /\ new_task_idx < num_tasks
                         THEN GotoWith(t, "adv_insp_idx", new_task_idx)
                         ELSE IF new_task_idx >= num_tasks /\ direction = 1
                         THEN IF panel_idx < NumPanels(Self) - 1
                              THEN GotoWith(t, "adv_next_panel_write",
                                            panel_idx + 1)
                              ELSE Goto(t, "adv_to_summary")
                         ELSE IF new_task_idx < 0 /\ direction = -1
                         THEN IF panel_idx > 0
                              THEN GotoWith(t, "adv_prev_panel_write",
                                            panel_idx - 1)
                              ELSE Goto(t, "adv_insp_tools")
                         ELSE Goto(t, Return(t))
           ELSE IF state = STATE_SUMMARY /\ direction = -1
           THEN Goto(t, "adv_summary_back")
           ELSE Goto(t, Return(t))
    /\ UNCHANGED <<display, history, world>>

\* lines 256-258
AdvStart(t) ==
    /\ Alive /\ th[t].pc = "adv_start"
    /\ Write("state", STATE_PREREQUISITES)
    /\ Goto(t, "adv_redraw")
    /\ UNCHANGED <<history, world>>

\* each branch ends with self.needs_redraw = True; return
AdvRedraw(t) ==
    /\ Alive /\ th[t].pc = "adv_redraw"
    /\ Write("needs_redraw", TRUE)
    /\ Goto(t, Return(t))
    /\ UNCHANGED <<history, world>>

\* line 262
AdvToolsForward(t) ==
    /\ Alive /\ th[t].pc = "adv_tools_fwd"
    /\ Write("state", STATE_INSPECTION)
    /\ Goto(t, "adv_redraw")
    /\ UNCHANGED <<history, world>>

\* line 264
AdvToolsBack(t) ==
    /\ Alive /\ th[t].pc = "adv_tools_back"
    /\ Write("state", STATE_PREREQUISITES)
    /\ Goto(t, "adv_tools_back_idx")
    /\ UNCHANGED <<history, world>>

\* line 265
AdvToolsBackIndex(t) ==
    /\ Alive /\ th[t].pc = "adv_tools_back_idx"
    /\ Write("prereq_idx", NumPrereqs(Self) - 1)
    /\ Goto(t, "adv_redraw")
    /\ UNCHANGED <<history, world>>

\* line 275
AdvPrereqIndex(t) ==
    /\ Alive /\ th[t].pc = "adv_prereq_idx"
    /\ Write("prereq_idx", th[t].v)
    /\ Goto(t, "adv_redraw")
    /\ UNCHANGED <<history, world>>

\* line 278
AdvPrereqToTools(t) ==
    /\ Alive /\ th[t].pc = "adv_prereq_tools"
    /\ Write("state", STATE_TOOLS)
    /\ Goto(t, "adv_redraw")
    /\ UNCHANGED <<history, world>>

\* line 281
AdvPrereqToStart(t) ==
    /\ Alive /\ th[t].pc = "adv_prereq_start"
    /\ Write("state", STATE_START)
    /\ Goto(t, "adv_redraw")
    /\ UNCHANGED <<history, world>>

\* line 294
AdvInspectionIndex(t) ==
    /\ Alive /\ th[t].pc = "adv_insp_idx"
    /\ Write("task_idx", th[t].v)
    /\ GotoWith(t, "adv_redraw", 0)
    /\ UNCHANGED <<history, world>>

\* line 299: self.panel_idx += 1
AdvNextPanelWrite(t) ==
    /\ Alive /\ th[t].pc = "adv_next_panel_write"
    /\ Write("panel_idx", th[t].v)
    /\ GotoWith(t, "adv_next_panel_task", 0)
    /\ UNCHANGED <<history, world>>

\* line 300
AdvNextPanelTask(t) ==
    /\ Alive /\ th[t].pc = "adv_next_panel_task"
    /\ Write("task_idx", 0)
    /\ Goto(t, "adv_redraw")
    /\ UNCHANGED <<history, world>>

\* line 304
AdvToSummary(t) ==
    /\ Alive /\ th[t].pc = "adv_to_summary"
    /\ Write("state", STATE_SUMMARY)
    /\ Goto(t, "adv_summary_redraw")
    /\ UNCHANGED <<history, world>>

\* line 305
AdvSummaryRedraw(t) ==
    /\ Alive /\ th[t].pc = "adv_summary_redraw"
    /\ Write("needs_redraw", TRUE)
    /\ Goto(t, "adv_recording?")
    /\ UNCHANGED <<history, world>>

\* line 307: if self.is_recording_active
AdvTestRecording(t) ==
    /\ Alive /\ th[t].pc = "adv_recording?"
    /\ IF is_recording_active
       THEN Goto(t, "adv_release") ELSE Goto(t, Return(t))
    /\ UNCHANGED <<display, history, world>>

\* line 308: self.out.release()
AdvRelease(t) ==
    /\ Alive /\ th[t].pc = "adv_release"
    /\ SetSelf(Release(Self))
    /\ Goto(t, "adv_inactive")
    /\ UNCHANGED <<history, world>>

\* line 309
AdvInactive(t) ==
    /\ Alive /\ th[t].pc = "adv_inactive"
    /\ Write("is_recording_active", FALSE)
    /\ Goto(t, Return(t))
    /\ UNCHANGED <<history, world>>

\* line 315: self.panel_idx -= 1
AdvPrevPanelWrite(t) ==
    /\ Alive /\ th[t].pc = "adv_prev_panel_write"
    /\ Write("panel_idx", th[t].v)
    /\ GotoWith(t, "adv_last_task_read", 0)
    /\ UNCHANGED <<history, world>>

\* lines 317 and 329: len(panels[self.panel_idx]["tasks"]) - 1, evaluated
AdvLastTaskRead(t) ==
    /\ Alive /\ th[t].pc = "adv_last_task_read"
    /\ IF PyInRange(workflow.panels, panel_idx)
       THEN GotoWith(t, "adv_last_task_write",
                     Len(PyIndex(workflow.panels, panel_idx)) - 1)
       ELSE Goto(t, Raise(t))
    /\ UNCHANGED <<display, history, world>>

\* lines 317 and 329: self.task_idx = ..., the write
AdvLastTaskWrite(t) ==
    /\ Alive /\ th[t].pc = "adv_last_task_write"
    /\ Write("task_idx", th[t].v)
    /\ GotoWith(t, "adv_redraw", 0)
    /\ UNCHANGED <<history, world>>

\* line 321
AdvInspectionToTools(t) ==
    /\ Alive /\ th[t].pc = "adv_insp_tools"
    /\ Write("state", STATE_TOOLS)
    /\ Goto(t, "adv_redraw")
    /\ UNCHANGED <<history, world>>

\* line 327
AdvSummaryBack(t) ==
    /\ Alive /\ th[t].pc = "adv_summary_back"
    /\ Write("state", STATE_INSPECTION)
    /\ Goto(t, "adv_summary_back_panel")
    /\ UNCHANGED <<history, world>>

\* line 328
AdvSummaryBackPanel(t) ==
    /\ Alive /\ th[t].pc = "adv_summary_back_panel"
    /\ Write("panel_idx", NumPanels(Self) - 1)
    /\ Goto(t, "adv_last_task_read")
    /\ UNCHANGED <<history, world>>

AdvanceSteps(t) ==
    \/ AdvDecide(t) \/ AdvStart(t) \/ AdvRedraw(t)
    \/ AdvToolsForward(t) \/ AdvToolsBack(t) \/ AdvToolsBackIndex(t)
    \/ AdvPrereqIndex(t) \/ AdvPrereqToTools(t) \/ AdvPrereqToStart(t)
    \/ AdvInspectionIndex(t)
    \/ AdvNextPanelWrite(t) \/ AdvNextPanelTask(t)
    \/ AdvToSummary(t) \/ AdvSummaryRedraw(t) \/ AdvTestRecording(t)
    \/ AdvRelease(t) \/ AdvInactive(t)
    \/ AdvPrevPanelWrite(t) \/ AdvLastTaskRead(t) \/ AdvLastTaskWrite(t)
    \/ AdvInspectionToTools(t)
    \/ AdvSummaryBack(t) \/ AdvSummaryBackPanel(t)

\* ---- _get_current_step and _mark_status (lines 240-252) ----

\* The position in `list` that list[i] of Python names.
PyPosition(list, i) == IF i >= 0 THEN i + 1 ELSE Len(list) + i + 1

SetStatus(w, step, status) ==
    IF step[1] = 0 THEN [w EXCEPT !.prerequisites[step[2]] = status]
    ELSE [w EXCEPT !.panels[step[1]][step[2]] = status]

\* _get_current_step (lines 241-245) and the test of line 249, evaluated on
\* one reading of the Cursor: the current step, if the state has one and it
\* is PENDING, is kept in ref.
MarkRead(t) ==
    /\ Alive /\ th[t].pc = "mark"
    /\ LET tasks == PyIndex(workflow.panels, panel_idx)
           step ==
               IF state = STATE_PREREQUISITES
               THEN IF PyInRange(workflow.prerequisites, prereq_idx)
                    THEN <<0, PyPosition(workflow.prerequisites, prereq_idx)>>
                    ELSE <<"IndexError">>
               ELSE IF state = STATE_INSPECTION
               THEN IF /\ PyInRange(workflow.panels, panel_idx)
                       /\ PyInRange(tasks, task_idx)
                    THEN <<PyPosition(workflow.panels, panel_idx),
                           PyPosition(tasks, task_idx)>>
                    ELSE <<"IndexError">>
               ELSE <<>>
       IN  IF step = <<"IndexError">> THEN Goto(t, Raise(t))
           ELSE IF step # <<>> /\ StatusOf(workflow, step) = "PENDING"
           THEN th' = [th EXCEPT ![t].pc = "mark_write", ![t].ref = step]
           ELSE Goto(t, Return(t))
    /\ UNCHANGED <<display, history, world>>

\* line 250: step["status"] = status
MarkWrite(t) ==
    /\ Alive /\ th[t].pc = "mark_write"
    /\ Write("workflow",
             SetStatus(workflow, th[t].ref, MarkArgument(th[t].cmd)))
    /\ th' = [th EXCEPT ![t].pc = "mark_redraw", ![t].ref = <<>>]
    /\ UNCHANGED <<history, world>>

\* line 251
MarkRedraw(t) ==
    /\ Alive /\ th[t].pc = "mark_redraw"
    /\ Write("needs_redraw", TRUE)
    /\ Goto(t, Return(t))
    /\ UNCHANGED <<history, world>>

MarkSteps(t) == MarkRead(t) \/ MarkWrite(t) \/ MarkRedraw(t)

\* ---- FlaskServer.handle_command (lines 130-151) ----

Entry(command) == IF command \in {"next", "prev"} THEN "adv" ELSE "mark"

\* A request for /api/<command> arrives on its own thread (the threads
\* are taken in order) and reads the clock (line 132: time.time()).
Arrive(t, command) ==
    /\ Alive /\ th[t].pc = "idle"
    /\ \A u \in RequestThreads : u < t => th[u].pc # "idle"
    /\ th' = [th EXCEPT ![t].pc = "gate", ![t].cmd = command, ![t].t0 = now]
    /\ UNCHANGED <<display, history, world>>

\* A bug handle_command could have: the refusal itself restarts the
\* cooldown.
GateStampsRefusal(t) ==
    /\ Alive /\ th[t].pc = "gate"
    /\ IF th[t].t0 < last_input_time + INPUT_COOLDOWN_TIME
       THEN /\ th' = [th EXCEPT ![t] = IdleThread("done")]
            /\ rejected' = rejected \cup {<<t, th[t].t0>>}
            /\ last_input_time' = now
            /\ UNCHANGED accepted
       ELSE IF th[t].cmd \in {"next", "prev", "pass", "fail"}
       THEN /\ Goto(t, Entry(th[t].cmd))
            /\ accepted' = accepted \cup {<<t, th[t].t0>>}
            /\ UNCHANGED <<rejected, last_input_time>>
       ELSE /\ th' = [th EXCEPT ![t] = IdleThread("done")]
            /\ UNCHANGED <<accepted, rejected, last_input_time>>
    /\ UNCHANGED <<display, history, now, gpio_handle, cap, effects, presses,
                   signals>>

\* lines 132-148: the cooldown test against last_input_time, then the
\* dispatch on the command
Gate(t) ==
    /\ Alive /\ th[t].pc = "gate"
    /\ IF th[t].t0 < last_input_time + INPUT_COOLDOWN_TIME
       THEN /\ th' = [th EXCEPT ![t] = IdleThread("done")]
            /\ rejected' = rejected \cup {<<t, th[t].t0>>}
            /\ UNCHANGED accepted
       ELSE IF th[t].cmd \in {"next", "prev", "pass", "fail"}
       THEN /\ Goto(t, Entry(th[t].cmd))
            /\ accepted' = accepted \cup {<<t, th[t].t0>>}
            /\ UNCHANGED rejected
       ELSE /\ th' = [th EXCEPT ![t] = IdleThread("done")]
            /\ UNCHANGED <<accepted, rejected>>
    /\ UNCHANGED <<display, history, now, last_input_time, gpio_handle, cap,
                   effects, presses, signals>>

\* line 150: self.inspection_app.last_input_time = time.time()
Stamp(t) ==
    /\ Alive /\ th[t].pc = "stamp"
    /\ last_input_time' = now
    /\ th' = [th EXCEPT ![t] = IdleThread("done")]
    /\ UNCHANGED <<display, history, now, gpio_handle, cap, effects, presses,
                   signals, accepted, rejected>>

\* An exception in the handler: Flask answers with a server error.
RequestFails(t) ==
    /\ Alive /\ th[t].pc = "failed"
    /\ th' = [th EXCEPT ![t] = IdleThread("done")]
    /\ UNCHANGED <<display, history, world>>

RequestSteps(t) ==
    \/ \E command \in RemoteCommands : Arrive(t, command)
    \/ Gate(t) \/ Stamp(t)

\* ---- InspectionDisplay.run and _check_buttons (main thread) ----

Main == th[MainThread]
MainGoto(label) == Goto(MainThread, label)

\* lines 489-498, one iteration down to _check_buttons: a frame is read
\* and recorded, and no 'q' key is seen.
MainFrame ==
    /\ Main.pc = "frame"
    /\ MainGoto("btn")
    /\ UNCHANGED <<display, history, world>>

\* lines 489, 495 and 479: a frame is read and _process_and_record_frame
\* tests self.is_recording_active and self.out.isOpened()
RecordTest ==
    /\ Main.pc = "frame"
    /\ IF is_recording_active /\ out = "open"
       THEN MainGoto("write") ELSE MainGoto("btn")
    /\ UNCHANGED <<display, history, world>>

\* lines 480-484: self.out.write(frame), on the writer as it is now; no
\* 'q' key is seen
RecordWrite ==
    /\ Main.pc = "write"
    /\ MainGoto("btn")
    /\ UNCHANGED <<display, history, world>>

\* lines 489-491: the frame read fails and the error is logged
MainFrameFails ==
    /\ Main.pc = "frame"
    /\ MainGoto("frame_retry")
    /\ UNCHANGED <<display, history, world>>

\* lines 492-493: time.sleep(1); continue
MainFrameRetry ==
    /\ Main.pc = "frame_retry"
    /\ MainGoto("frame")
    /\ now' = IF now < MaxTime THEN now + 1 ELSE now
    /\ UNCHANGED <<display, history, last_input_time, gpio_handle, cap,
                   effects, presses, signals, accepted, rejected>>

\* lines 482-483, 495-496, 515: 'q' ends the loop and cleanup starts
MainKeyQuit ==
    /\ Main.pc = "frame"
    /\ MainGoto("c_cap")
    /\ cleanup_log' = <<>>
    /\ UNCHANGED <<display, journal, world>>

\* lines 500-513: the dirty flag is cleared and the render step raises
\* for a reason other than the Cursor (the display driver, for one).
MainRaises ==
    /\ Main.pc = "draw?"
    /\ needs_redraw
    /\ Write("needs_redraw", FALSE)
    /\ MainGoto("crash")
    /\ UNCHANGED <<history, world>>

\* lines 454-457: nothing to poll without a GPIO handle; otherwise the
\* clock is read (time.time())
ButtonsEnter ==
    /\ Main.pc = "btn"
    /\ IF gpio_handle = "none" THEN MainGoto("draw?")
       ELSE th' = [th EXCEPT ![MainThread].pc = "btn_gate",
                             ![MainThread].t0 = now]
    /\ UNCHANGED <<display, history, world>>

\* lines 457-458: the cooldown test
ButtonsGate ==
    /\ Main.pc = "btn_gate"
    /\ IF Main.t0 < last_input_time + INPUT_COOLDOWN_TIME
       THEN /\ th' = [th EXCEPT ![MainThread] = IdleThread("draw?")]
            /\ rejected' = rejected \cup {<<MainThread, Main.t0>>}
       ELSE /\ MainGoto("btn_poll")
            /\ UNCHANGED rejected
    /\ UNCHANGED <<display, history, now, last_input_time, gpio_handle, cap,
                   effects, presses, signals, accepted>>

\* lines 460-461: no pin reads 0
ButtonsNonePressed ==
    /\ Main.pc = "btn_poll"
    /\ th' = [th EXCEPT ![MainThread] = IdleThread("draw?")]
    /\ UNCHANGED <<display, history, world>>

\* lines 460-461: the first pin that reads 0 is the one of `button`
ButtonsPressed(button) ==
    /\ Main.pc = "btn_poll"
    /\ presses < MaxPresses
    /\ presses' = presses + 1
    /\ th' = [th EXCEPT ![MainThread].pc = "btn_wait",
                        ![MainThread].cmd = button]
    /\ UNCHANGED <<display, history, now, last_input_time, gpio_handle, cap,
                   effects, signals, accepted, rejected>>

\* lines 462-472: the button is released and its command is called
ButtonsReleased ==
    /\ Main.pc = "btn_wait"
    /\ MainGoto(Entry(Main.cmd))
    /\ accepted' = accepted \cup {<<MainThread, Main.t0>>}
    /\ UNCHANGED <<display, history, now, last_input_time, gpio_handle, cap,
                   effects, presses, signals, rejected>>

\* line 474: self.last_input_time = time.time()
ButtonsStamp ==
    /\ Main.pc = "btn_stamp"
    /\ last_input_time' = now
    /\ MainGoto("btn_redraw")
    /\ UNCHANGED <<display, history, now, gpio_handle, cap, effects, presses,
                   signals, accepted, rejected>>

\* line 475: self.needs_redraw = True
ButtonsRedraw ==
    /\ Main.pc = "btn_redraw"
    /\ Write("needs_redraw", TRUE)
    /\ th' = [th EXCEPT ![MainThread] = IdleThread("draw?")]
    /\ UNCHANGED <<history, world>>

\* What the draw function of the current state indexes (lines 397, 417,
\* 418): it raises IndexError when the Cursor is out of range.
Drawable(s) ==
    /\ s.state = STATE_PREREQUISITES
          => PyInRange(s.workflow.prerequisites, s.prereq_idx)
    /\ s.state = STATE_INSPECTION
          => /\ PyInRange(s.workflow.panels, s.panel_idx)
             /\ PyInRange(PyIndex(s.workflow.panels, s.panel_idx), s.task_idx)

\* lines 500-513, the end of one iteration: if the dirty flag is set it is
\* cleared and the screen of the current state is drawn and shown.
MainRedraw ==
    /\ Main.pc = "draw?"
    /\ IF needs_redraw
       THEN /\ Write("needs_redraw", FALSE)
            /\ IF Drawable(Self) THEN MainGoto("frame") ELSE MainGoto("crash")
       ELSE /\ UNCHANGED display
            /\ MainGoto("frame")
    /\ UNCHANGED <<history, world>>

\* lines 500-501: if self.needs_redraw: self.needs_redraw = False
MainClear ==
    /\ Main.pc = "draw?"
    /\ IF needs_redraw
       THEN Write("needs_redraw", FALSE) /\ MainGoto("draw")
       ELSE UNCHANGED display /\ MainGoto("frame")
    /\ UNCHANGED <<history, world>>

\* lines 503-513: the screen of the current state is drawn from the
\* Cursor as it is now, and shown; the draw function raises IndexError when
\* the Cursor is out of range.
MainDraw ==
    /\ Main.pc = "draw"
    /\ IF Drawable(Self)
       THEN shown' = Visible(Self) /\ MainGoto("frame")
       ELSE UNCHANGED shown /\ MainGoto("crash")
    /\ UNCHANGED <<display, summary_entries, recent, before_last, origin,
                   advances, last, cleanup_log, world>>

\* lines 599-602: an exception leaves run(); the handler of __main__ logs
\* it and runs cleanup, outside the try
Crash ==
    /\ Main.pc = "crash"
    /\ th' = [th EXCEPT ![MainThread] =
                  [IdleThread("c_cap") EXCEPT !.guarded = FALSE]]
    /\ cleanup_log' = <<>>
    /\ UNCHANGED <<display, journal, world>>

\* _check_buttons when no button is pressed.
ButtonsIdleSteps ==
    \/ ButtonsEnter \/ ButtonsGate \/ ButtonsNonePressed

\* _check_buttons when a button is pressed.
ButtonsPressSteps ==
    \/ \E button \in Buttons : ButtonsPressed(button)
    \/ ButtonsReleased \/ ButtonsStamp \/ ButtonsRedraw

\* ---- cleanup (lines 517-568) and signal_handler (lines 571-577) ----

Effect(name) == effects' = [effects EXCEPT ![name] = @ + 1]

\* The cleanup run has attempted `step`; `done`: it did not raise.
Log(step, done) == cleanup_log' = Append(cleanup_log, <<step, done>>)

CleanupFrame ==
    UNCHANGED <<journal, now, last_input_time, gpio_handle, presses, signals,
                accepted, rejected>>

\* line 519: self.cap.release()
CleanupCapture ==
    /\ Main.pc = "c_cap"
    /\ Effect("capture_release")
    /\ Log("capture", TRUE)
    /\ MainGoto("c_out?")
    /\ cap' = "released"
    /\ UNCHANGED display /\ CleanupFrame

CleanupArchivesFirst ==
    /\ Main.pc = "c_out?"
    /\ MainGoto("c_backup")
    /\ UNCHANGED <<display, history, world>>

\* line 521: if hasattr(self, "out") and self.out.isOpened()
CleanupTestWriter ==
    /\ Main.pc = "c_out?"
    /\ IF out = "open" THEN MainGoto("c_release") ELSE MainGoto("c_backup")
    /\ UNCHANGED <<display, history, world>>

\* line 522: self.out.release()
CleanupRelease ==
    /\ Main.pc = "c_release"
    /\ SetSelf(Release(Self))
    /\ Effect("writer_release")
    /\ Log("writer", TRUE)
    /\ MainGoto("c_backup")
    /\ UNCHANGED cap /\ CleanupFrame

\* line 526: self._backup_to_usb(), which catches what its steps raise
CleanupBackup ==
    /\ Main.pc = "c_backup"
    /\ Effect("archive")
    /\ Log("archive", TRUE)
    /\ MainGoto("c_message")
    /\ UNCHANGED display /\ UNCHANGED cap /\ CleanupFrame

\* lines 530-547: the shutdown message is shown
CleanupMessage ==
    /\ Main.pc = "c_message"
    /\ Effect("message")
    /\ Log("message", TRUE)
    /\ MainGoto("c_clear")
    /\ UNCHANGED display /\ UNCHANGED cap /\ CleanupFrame

\* lines 548-557: the display is blanked and cleared
CleanupClear ==
    /\ Main.pc = "c_clear"
    /\ Effect("clear")
    /\ Log("clear", TRUE)
    /\ MainGoto("c_module_exit")
    /\ UNCHANGED display /\ UNCHANGED cap /\ CleanupFrame

\* lines 528-560: the message or the clearing raises inside the try; the
\* exception is logged and cleanup goes on after the try
CleanupDisplayFails ==
    /\ Main.pc \in {"c_message", "c_clear"}
    /\ Log(IF Main.pc = "c_message" THEN "message" ELSE "clear", FALSE)
    /\ MainGoto("c_module_exit")
    /\ UNCHANGED <<display, cap, effects>> /\ CleanupFrame

\* lines 562-563: cv2.destroyAllWindows(); self.disp.module_exit()
CleanupModuleExit ==
    /\ Main.pc = "c_module_exit"
    /\ Effect("module_exit")
    /\ Log("module_exit", TRUE)
    /\ MainGoto("c_gpio")
    /\ UNCHANGED display /\ UNCHANGED cap /\ CleanupFrame

\* lines 565-568: the GPIO chip is closed if it was opened; the process
\* then ends (run() returned, or sys.exit of the caller)
CleanupGpio ==
    /\ Main.pc = "c_gpio"
    /\ IF gpio_handle # "none"
       THEN Effect("gpio_close") /\ Log("gpio", TRUE)
       ELSE UNCHANGED <<effects, cleanup_log>>
    /\ MainGoto("exited")
    /\ UNCHANGED display /\ UNCHANGED cap /\ CleanupFrame

\* The cleanup step the main thread is about to run, for the steps that
\* stand outside any try: lines 519, 522, 562-563 and 566.
UnguardedStep ==
    IF Main.pc = "c_cap" THEN "capture"
    ELSE IF Main.pc = "c_release" THEN "writer"
    ELSE IF Main.pc = "c_module_exit" THEN "module_exit"
    ELSE IF Main.pc = "c_gpio" /\ gpio_handle # "none" THEN "gpio"
    ELSE "none"

\* One of those steps raises: the exception leaves cleanup. Under the try
\* of __main__ (cleanup called by run() at line 515, or by the signal
\* handler on top of run()) the handler of lines 599-602 catches it;
\* otherwise nothing does and the process ends.
CleanupRaises ==
    /\ UnguardedStep # "none"
    /\ Log(UnguardedStep, FALSE)
    /\ IF Main.guarded THEN MainGoto("crash") ELSE MainGoto("exited")
    /\ UNCHANGED <<display, cap, effects>> /\ CleanupFrame

\* SIGTERM or SIGINT: signal_handler runs on the main thread, on top of
\* whatever it was doing, calls cleanup and then sys.exit(0).
Signal ==
    /\ Alive
    /\ signals < MaxSignals
    /\ signals' = signals + 1
    /\ th' = [th EXCEPT ![MainThread] =
                  [IdleThread("c_cap") EXCEPT !.guarded = Main.guarded]]
    /\ cleanup_log' = <<>>
    /\ UNCHANGED <<display, journal, now, last_input_time, gpio_handle, cap,
                   effects, presses, accepted, rejected>>

CleanupSteps ==
    \/ CleanupCapture \/ CleanupTestWriter \/ CleanupRelease
    \/ CleanupBackup \/ CleanupMessage \/ CleanupClear \/ CleanupModuleExit
    \/ CleanupGpio

\* A cleanup step fails.
CleanupFailures == CleanupDisplayFails \/ CleanupRaises

\* time.time() moves on.
Tick ==
    /\ Alive
    /\ now < MaxTime
    /\ now' = now + 1
    /\ UNCHANGED <<display, history, th, last_input_time, gpio_handle, cap,
                   effects, presses, signals, accepted, rejected>>

\* The display after `n` NEXT commands handled one at a time.
RECURSIVE AfterAdvances(_, _)
AfterAdvances(s, n) ==
    IF n = 0 THEN s ELSE AdvanceState(AfterAdvances(s, n - 1), 1)

\* The program at some point of an inspection run so far without overlap:
\* any number of NEXT commands handled, the last one at least a cooldown
\* ago, the main loop at the top of an iteration and no request in flight.
InitConc ==
    /\ \E writer_opened \in BOOLEAN,
          n \in 0..AdvancesNeeded(INSPECTION_WORKFLOW) :
          IsSelf(AfterAdvances(NewDisplay(INSPECTION_WORKFLOW, writer_opened),
                               n))
    /\ summary_entries = 0
    /\ recent = <<>>
    /\ before_last = Cursor(Self)
    /\ origin = Cursor(Self)
    /\ advances = 0
    /\ last = NoCommand
    /\ cleanup_log = <<>>
    /\ shown = NothingShown
    /\ ProgramAtRest

\* Buttons and remote requests served side by side while the program runs.
NextConc ==
    \/ \E t \in Threads : AdvanceSteps(t) \/ MarkSteps(t)
    \/ \E t \in RequestThreads : RequestSteps(t) \/ RequestFails(t)
    \/ MainFrame
    \/ ButtonsIdleSteps
    \/ ButtonsPressSteps
    \/ MainRedraw
    \/ Tick

SpecConc == InitConc /\ [][NextConc]_vars

\* Remote requests served while the program runs and while it shuts down.
NextShutdown ==
    \/ \E t \in RequestThreads :
          AdvanceSteps(t) \/ MarkSteps(t) \/ RequestSteps(t)
    \/ MainFrame
    \/ ButtonsIdleSteps
    \/ MainRedraw
    \/ Crash
    \/ MainKeyQuit
    \/ Signal
    \/ CleanupSteps
    \/ Tick

SpecShutdown == InitConc /\ [][NextShutdown]_vars

\* A step of the main loop with its render taken in two steps, the buttons
\* polled and none pressed.
MainLoopStep ==
    \/ MainFrame
    \/ ButtonsIdleSteps
    \/ MainClear
    \/ MainDraw

\* A step of a request being handled; its arrival is not one.
HandlerStep(t) ==
    \/ AdvanceSteps(t) \/ MarkSteps(t)
    \/ Gate(t) \/ Stamp(t)

\* Remote requests served while the main loop polls and renders.
NextRender ==
    \/ MainLoopStep
    \/ \E t \in RequestThreads :
          HandlerStep(t) \/ \E command \in RemoteCommands : Arrive(t, command)
    \/ Tick

SpecRender == InitConc /\ [][NextRender]_vars

\* Remote requests served while the main loop records its frames.
NextRecord ==
    \/ RecordTest
    \/ RecordWrite
    \/ ButtonsIdleSteps
    \/ MainRedraw
    \/ \E t \in RequestThreads :
          HandlerStep(t) \/ \E command \in RemoteCommands : Arrive(t, command)
    \/ Tick

SpecRecord == InitConc /\ [][NextRecord]_vars

\* The scheduler lets the main loop and every handler take their steps.
FairRender ==
    /\ SpecRender
    /\ WF_vars(MainLoopStep)
    /\ \A t \in RequestThreads : WF_vars(HandlerStep(t))

\* The main thread alone, with the steps of the loop and of cleanup that can
\* fail: a frame read, the render step, and the steps of cleanup.
NextFailures ==
    \/ MainFrame
    \/ MainFrameFails
    \/ MainFrameRetry
    \/ ButtonsIdleSteps
    \/ MainRedraw
    \/ MainRaises
    \/ Crash
    \/ MainKeyQuit
    \/ Signal
    \/ CleanupSteps
    \/ CleanupFailures

SpecFailures == InitConc /\ [][NextFailures]_vars

\* ---- _backup_to_usb (lines 333-363), statement by statement ----

\* One statement of _backup_to_usb: it succeeds or not, and the function
\* goes on at `to`; "c_message" is the return to cleanup at line 528.
BackupStep(from, step, ok, to) ==
    /\ Main.pc = from
    /\ Log(step, ok)
    /\ MainGoto(to)
    /\ UNCHANGED <<display, journal, world>>

\* lines 339-344: os.makedirs; on an exception, log and return
BackupMakedirs ==
    \E ok \in BOOLEAN :
        BackupStep("c_backup", "makedirs", ok,
                   IF ok THEN "b_probe" ELSE "c_message")

\* lines 346-352: the write probe; on an exception, log
BackupProbe ==
    \E ok \in BOOLEAN : BackupStep("b_probe", "probe", ok, "b_exists")

\* lines 354-356: if the video file does not exist, log and return
BackupExists ==
    \E found \in BOOLEAN :
        BackupStep("b_exists", "exists", found,
                   IF found THEN "b_copy" ELSE "c_message")

\* lines 358-363: shutil.copy2; on an exception, log
BackupCopy ==
    \E ok \in BOOLEAN : BackupStep("b_copy", "copy", ok, "c_message")

\* cleanup on the main thread alone, its archival copy taken statement by
\* statement.
NextBackup ==
    \/ MainKeyQuit
    \/ CleanupCapture \/ CleanupTestWriter \/ CleanupRelease
    \/ BackupMakedirs \/ BackupProbe \/ BackupExists \/ BackupCopy
    \/ CleanupMessage \/ CleanupClear \/ CleanupModuleExit \/ CleanupGpio

SpecBackup == InitConc /\ [][NextBackup]_vars

\* ---- Claims about SpecConc ----

\* C1: of any two commands, from the buttons or from remote requests, whose
\* submissions (the clock readings of their cooldown tests) are less than
\* INPUT_COOLDOWN_TIME apart, at most one is accepted and applied.
C1_OneAcceptedPerCooldown ==
    \A a, b \in accepted :
        a # b => \/ a[2] - b[2] >= INPUT_COOLDOWN_TIME
                 \/ b[2] - a[2] >= INPUT_COOLDOWN_TIME

\* The Cursors an inspection reaches when its commands are applied one at a
\* time.
SerialCursors ==
    {Cursor(AfterAdvances(NewDisplay(INSPECTION_WORKFLOW, TRUE), n)) :
        n \in 0..AdvancesNeeded(INSPECTION_WORKFLOW)}

\* No button command and no remote request is being handled.
NoCommandInFlight == \A t \in Threads : th[t].cmd = "none"

\* C3: overlapping _advance_state calls of the main thread and of request
\* threads leave no partial update behind: once no command is in flight the
\* Cursor is one that commands applied one at a time reach, and panel_idx
\* and task_idx are in bounds.
C3_CursorSerializable ==
    NoCommandInFlight
        => /\ Cursor(Self) \in SerialCursors
           /\ CursorInBounds(Self)

\* C11: a command refused because the cooldown is active, by the remote
\* handler or by the button poller, changes nothing: the step that refuses
\* it leaves the Cursor, every status, the recording flag, needs_redraw and
\* last_input_time as they were.
C11_RefusalChangesNothing ==
    [][rejected' # rejected
          => /\ Self' = Self
             /\ last_input_time' = last_input_time]_vars

\* A remote command and a button poll have both been refused, after a
\* command that was let in.
C11_Witness ==
    /\ accepted # {}
    /\ \E a \in rejected : a[1] = MainThread
    /\ \E a \in rejected : a[1] \in RequestThreads

\* C21: the Cursor the draw step of the main loop reads, whatever request
\* thread is inside _advance_state at that moment, is one that commands
\* applied one at a time reach, and the draw function indexes the
\* prerequisites, the panels and the tasks of the panel within range.
C21_RenderReadsWholeCursor ==
    [][Main.pc = "draw?" /\ needs_redraw /\ Main'.pc # "draw?"
          => /\ Cursor(Self) \in SerialCursors
             /\ Drawable(Self)]_vars

\* C19: every step that takes the stage from START to PREREQUISITES leaves
\* prereq_idx 0, and every step that takes it from TOOLS to INSPECTION
\* leaves panel_idx 0 and task_idx 0.
C19_ForwardEntryAtFirstItem ==
    [][/\ state = STATE_START /\ state' = STATE_PREREQUISITES
             => prereq_idx' = 0
       /\ state = STATE_TOOLS /\ state' = STATE_INSPECTION
             => panel_idx' = 0 /\ task_idx' = 0]_vars

\* The display is at the last task of the last panel.
AtLastTask ==
    /\ state = STATE_INSPECTION
    /\ panel_idx = NumPanels(Self) - 1
    /\ task_idx = NumTasks(Self, panel_idx) - 1

\* C20: every step that takes the stage to SUMMARY starts at the last task
\* of the last panel and is taken by a forward advance; a forward advance
\* that finds the stage SUMMARY returns with nothing changed; every step
\* that takes the stage out of SUMMARY takes it to INSPECTION.
C20_SummaryOnlyFromLastTask ==
    [][/\ state # STATE_SUMMARY /\ state' = STATE_SUMMARY
             => /\ AtLastTask
                /\ \E t \in Threads : /\ th'[t].pc # th[t].pc
                                      /\ Direction(th[t].cmd) = 1
       /\ \A t \in Threads :
             /\ th[t].pc = "adv" /\ th'[t].pc # "adv"
             /\ state = STATE_SUMMARY /\ Direction(th[t].cmd) = 1
             => Self' = Self /\ th'[t].pc = Return(t)
       /\ state = STATE_SUMMARY /\ state' # STATE_SUMMARY
             => state' = STATE_INSPECTION]_vars

\* C4: a step's status, once PASS or FAIL, is never changed again by any
\* command (a further mark with either argument included), and so never
\* returns to PENDING.
C4_StatusSetOnce ==
    [][\A step \in Steps(Self) :
          StatusOf(workflow, step) # "PENDING"
          => StatusOf(workflow', step) = StatusOf(workflow, step)]_vars

\* C5: reaching SUMMARY stops the recording exactly once: the writer is
\* released on the first entry into SUMMARY and never a second time, and
\* once the commands that brought the workflow to SUMMARY are done,
\* recording is not active and stays so.
C5_RecordingStopsOnce ==
    /\ release_calls <= 1
    /\ NoCommandInFlight /\ state = STATE_SUMMARY
          => ~is_recording_active /\ out # "open"

\* ---- Claims about SpecShutdown ----

\* C6: the workflow reaching SUMMARY and cleanup on shutdown release the
\* recording writer once between them: whichever comes second finds the
\* writer already closed and does not release it again.
C6_WriterReleasedOnce ==
    /\ release_calls <= 1
    /\ out = "closed" => release_calls = 1

\* The labels of the main thread inside cleanup.
CleanupLabels ==
    {"c_cap", "c_out?", "c_release", "c_backup", "c_message", "c_clear",
     "c_module_exit", "c_gpio"}

\* C14: once cleanup has begun, no command is applied to the workflow any
\* more: no thread enters _advance_state or _mark_status while or after the
\* main thread runs cleanup.
C14_NoCommandAfterShutdown ==
    [][Main.pc \in CleanupLabels \cup {"exited"}
          => \A t \in Threads :
                th'[t].pc \in {"adv", "mark"} => th[t].pc = th'[t].pc]_vars

\* C7: when cleanup is entered both from the end of run() (or the crash
\* handler) and from the signal handler, each of its effects (capture
\* release, writer release, archival copy, display shutdown, GPIO close)
\* happens at most once.
C7_CleanupEffectsOnce == \A name \in DOMAIN effects : effects[name] <= 1

\* ------------------------------------------------------------------------
\* Input handled one call at a time (SpecInput): each handle_command call
\* and each _check_buttons call runs to its end before the next one starts
\* ------------------------------------------------------------------------

\* The command applied to the display (lines 135-146 and 465-472).
ApplyCommand(s, command) ==
    IF command \in {"next", "prev"} THEN AdvanceState(s, Direction(command))
    ELSE MarkStatus(s, MarkArgument(command))

CooldownActiveInclusive(time) ==
    time <= last_input_time + INPUT_COOLDOWN_TIME

\* lines 132 and 457: time.time() < last_input_time + INPUT_COOLDOWN_TIME
CooldownActive(time) ==
    time < last_input_time + INPUT_COOLDOWN_TIME

\* handle_command (lines 130-151), whole: the cooldown test, the dispatch
\* on the command, the stamp of last_input_time and the response.
HandleCommand(command) ==
    /\ IF CooldownActive(now)
       THEN /\ last' = [source |-> "remote", command |-> command,
                        time |-> now, outcome |-> "429 cooldown"]
            /\ UNCHANGED <<display, last_input_time>>
       ELSE IF command \in {"next", "prev", "pass", "fail"}
       THEN /\ MarkedCount(ApplyCommand(Self, command)) <= MaxMarks
            /\ SetSelf(ApplyCommand(Self, command))
            /\ last_input_time' = now
            /\ last' = [source |-> "remote", command |-> command,
                        time |-> now, outcome |-> "200 success"]
       ELSE /\ last' = [source |-> "remote", command |-> command,
                        time |-> now, outcome |-> "400 invalid"]
            /\ UNCHANGED <<display, last_input_time>>
    /\ UNCHANGED <<summary_entries, recent, before_last, origin, advances,
                   cleanup_log, shown, th, now, gpio_handle, cap, effects,
                   presses, signals, accepted, rejected>>

\* _check_buttons (lines 453-476), whole, while the button of command
\* `pressed` is held down ("none": no button is).
CheckButtons(pressed) ==
    /\ IF gpio_handle = "none"
       THEN /\ last' = [source |-> "button", command |-> pressed,
                        time |-> now, outcome |-> "no gpio"]
            /\ UNCHANGED <<display, last_input_time>>
       ELSE IF CooldownActive(now)
       THEN /\ last' = [source |-> "button", command |-> pressed,
                        time |-> now, outcome |-> "cooldown"]
            /\ UNCHANGED <<display, last_input_time>>
       ELSE IF pressed = "none"
       THEN /\ last' = [source |-> "button", command |-> pressed,
                        time |-> now, outcome |-> "idle"]
            /\ UNCHANGED <<display, last_input_time>>
       ELSE /\ MarkedCount(ApplyCommand(Self, pressed)) <= MaxMarks
            /\ SetSelf([ApplyCommand(Self, pressed)
                           EXCEPT !.needs_redraw = TRUE])
            /\ last_input_time' = now
            /\ last' = [source |-> "button", command |-> pressed,
                        time |-> now, outcome |-> "success"]
    /\ UNCHANGED <<summary_entries, recent, before_last, origin, advances,
                   cleanup_log, shown, th, now, gpio_handle, cap, effects,
                   presses, signals, accepted, rejected>>

\* The program at some point of an inspection: any number of NEXT commands
\* handled, the last one at least a cooldown ago; the GPIO chip opened or
\* not (lines 163-170).
InitInput ==
    /\ \E writer_opened \in BOOLEAN,
          n \in 0..AdvancesNeeded(INSPECTION_WORKFLOW) :
          IsSelf(AfterAdvances(NewDisplay(INSPECTION_WORKFLOW, writer_opened),
                               n))
    /\ summary_entries = 0
    /\ recent = <<>>
    /\ before_last = Cursor(Self)
    /\ origin = Cursor(Self)
    /\ advances = 0
    /\ last = NoCommand
    /\ cleanup_log = <<>>
    /\ shown = NothingShown
    /\ th = [t \in Threads |->
                IF t = MainThread THEN IdleThread("frame")
                ELSE IdleThread("idle")]
    /\ now = 0
    /\ last_input_time = now - INPUT_COOLDOWN_TIME
    /\ gpio_handle \in {"open", "none"}
    /\ cap = "open"
    /\ effects = [capture_release |-> 0, writer_release |-> 0,
                  archive |-> 0, message |-> 0, clear |-> 0,
                  module_exit |-> 0, gpio_close |-> 0]
    /\ presses = 0
    /\ signals = 0
    /\ accepted = {}
    /\ rejected = {}

NextInput ==
    \/ \E command \in RemoteCommands : HandleCommand(command)
    \/ \E pressed \in Buttons \cup {"none"} : CheckButtons(pressed)
    \/ Redraw
    \/ Tick

SpecInput == InitInput /\ [][NextInput]_vars

\* ---- Claims about SpecInput ----

\* The step is an accepted command from `source`: only an accepted command
\* stamps last_input_time, and with a time at least a cooldown later.
AcceptedFrom(source) ==
    /\ last_input_time' # last_input_time
    /\ last'.source = source

\* The step changes the stage, an index or a status.
Mutates == Cursor(Self)' # Cursor(Self) \/ workflow' # workflow

\* C12: an accepted command, from a button or from the remote endpoint,
\* sets needs_redraw if it changes the stage, an index or a status, and
\* leaves needs_redraw as it was if it changes nothing.
C12_DirtyExactlyOnMutation ==
    [][AcceptedFrom("button") \/ AcceptedFrom("remote")
          => /\ Mutates => needs_redraw'
             /\ ~Mutates => needs_redraw' = needs_redraw]_vars

\* C13: a remote request whose command is none of next, prev, pass, fail
\* gets the 400 outcome, whatever the cooldown state, and changes neither
\* the display nor last_input_time.
C13_InvalidGetsBadRequest ==
    [][last'.source = "remote" /\ last'.command = "other"
          => /\ last'.outcome = "400 invalid"
             /\ Self' = Self
             /\ last_input_time' = last_input_time]_vars

\* A command has been handled: its outcome is on record.
Handled == now' = now /\ last' # last

\* C24: with each handler call and each button poll run to completion
\* before the next starts, a recognized command (a button needs the GPIO
\* chip open) handled less than INPUT_COOLDOWN_TIME after the last accepted
\* command is refused and leaves last_input_time as it was; handled at
\* least INPUT_COOLDOWN_TIME after it, or as the first command of the
\* program, it is accepted and last_input_time becomes the time of the
\* command, whether or not it changes the Cursor or a status.
C24_CooldownGateExact ==
    [][/\ Handled
       /\ last'.command \in Buttons
       /\ last'.source = "button" => gpio_handle = "open"
       => /\ last'.time = now
          /\ IF /\ now - last_input_time < INPUT_COOLDOWN_TIME
                /\ last # NoCommand
             THEN /\ last'.outcome \in {"429 cooldown", "cooldown"}
                  /\ last_input_time' = last_input_time
                  /\ Self' = Self
             ELSE /\ last'.outcome \in {"200 success", "success"}
                  /\ last_input_time' = now]_vars

\* A command that changes nothing (a mark on the START screen) has been
\* accepted, not at the first instant, and has restarted the cooldown.
C24_Witness ==
    /\ last.outcome \in {"200 success", "success"}
    /\ last.command \in {"pass", "fail"}
    /\ state = STATE_START
    /\ last.time >= INPUT_COOLDOWN_TIME
    /\ last_input_time = last.time

\* ---- Claims about SpecFailures ----

\* The steps of cleanup in the order of the documentation.
CleanupOrder ==
    <<"capture", "writer", "archive", "message", "clear", "module_exit",
      "gpio">>

Position(step) == CHOOSE i \in DOMAIN CleanupOrder : CleanupOrder[i] = step

Attempted == {cleanup_log[i][1] : i \in DOMAIN cleanup_log}

EveryStepDone == \A i \in DOMAIN cleanup_log : cleanup_log[i][2]

\* C15: a cleanup run attempts its steps in the order capture release,
\* writer release, archival copy, shutdown message, display clear, display
\* module exit, GPIO release; the archival copy is attempted only with the
\* writer closed; a run that ends with no step failed has done them all,
\* the writer release if the writer was open and the GPIO release if the
\* chip was opened.
C15_CleanupOrder ==
    /\ \A i, j \in DOMAIN cleanup_log :
           i < j => Position(cleanup_log[i][1]) < Position(cleanup_log[j][1])
    /\ "archive" \in Attempted => out # "open"
    /\ Main.pc = "exited" /\ EveryStepDone
          => /\ {"capture", "archive", "message", "clear", "module_exit"}
                   \subseteq Attempted
             /\ gpio_handle # "none" => "gpio" \in Attempted

C15_Witness ==
    /\ Main.pc = "exited"
    /\ EveryStepDone
    /\ Attempted = {CleanupOrder[i] : i \in DOMAIN CleanupOrder}

\* A cleanup run has ended: by its last step, or by an exception that left
\* it.
CleanupEnded == Main.pc \in {"crash", "exited"} /\ cleanup_log # <<>>

\* C16: whichever steps of a cleanup run fail, the run does not end before
\* it has attempted the archival copy and, the GPIO chip being open, its
\* release.
C16_FailureAbortsNothing ==
    CleanupEnded
        => /\ "archive" \in Attempted
           /\ gpio_handle # "none" => "gpio" \in Attempted

\* C17: an exception that leaves the main loop is followed by cleanup, and
\* a process that exits after such an exception has its recording writer
\* closed; a failed frame read starts no cleanup and the loop reads the
\* next frame (unless a signal arrives meanwhile).
C17_CrashRunsCleanup ==
    [][/\ Main.pc = "crash" => Main'.pc = "c_cap"
       /\ Main'.pc = "exited" /\ ~Main'.guarded => out' # "open"
       /\ Main'.pc = "frame_retry"
             => UNCHANGED <<display, cap, effects, cleanup_log>>
       /\ Main.pc = "frame_retry" /\ signals' = signals
             => Main'.pc = "frame"]_vars

\* ---- Claims about SpecBackup ----

\* C18: the video copy is attempted only after the write probe of the
\* target directory has succeeded, and whatever fails in _backup_to_usb,
\* cleanup goes on with the shutdown message.
C18_CopyOnlyAfterProbe ==
    /\ "copy" \in Attempted
          => \E i \in DOMAIN cleanup_log : cleanup_log[i] = <<"probe", TRUE>>
    /\ "makedirs" \in Attempted
          => Main.pc \in {"b_probe", "b_exists", "b_copy", "c_message",
                          "c_clear", "c_module_exit", "c_gpio", "exited"}

\* ---- Claims about FairRender ----

\* The screen shows the Cursor and the statuses as they are.
UpToDate == shown = Visible(Self)

\* C22: with the main loop and the handlers scheduled fairly and every frame
\* read, a screen that a mutation has made stale is eventually followed by
\* a render of the workflow as it then is: no mutation stays unrendered.
C22_MutationEventuallyRendered == ~UpToDate ~> UpToDate

\* ---- Claims about SpecRecord ----

\* C23: whatever a request thread does in _advance_state meanwhile, the
\* main loop executes out.write only on an open writer, never on one that
\* has been released.
C23_NoWriteAfterRelease ==
    [][Main.pc = "write" /\ Main'.pc # "write" => out = "open"]_vars

====
